---- MODULE Spec2Model ----
(***************************************************************************)
(* Scaled dot-product (QKV) attention of                                   *)
(* C4_W1_Ungraded_Lab_2_QKV_Attention.ipynb: tokenize, softmax,            *)
(* embed, calculate_weights and attention_qkv as pure functions over numpy *)
(* arrays, and a call of each as an action.                                *)
(*                                                                         *)
(* Numbers.  A float64 is a triple <<tag, n, d>>:                          *)
(*   <<"fin", n, d>>   the finite value n/d, in lowest terms, d > 0        *)
(*   <<"inf", s, 0>>   +infinity (s = 1) or -infinity (s = -1)             *)
(*   <<"nan", 0, 0>>   not-a-number                                        *)
(* Arithmetic on finite values is exact (rounding to 53 bits is not        *)
(* modelled); the IEEE 754 special values arise where float64 produces     *)
(* them: exp overflows to +inf and underflows to 0, inf/inf, 0/0,          *)
(* inf-inf and 0*inf are nan, x/0 is +-inf.  numpy reports these as        *)
(* RuntimeWarning, never as an exception.  exp of a small finite argument  *)
(* is a truncated Taylor series in fixed point, sqrt of a non-square a     *)
(* fixed-point root: both are approximations of the libm values.           *)
(***************************************************************************)
EXTENDS Integers, Sequences, FiniteSets

VARIABLES queries, keys, values, x, axis, sentence, token_mapping, tokens,
          embeddings, op, result, result_id, allocated, outcomes

vars == <<queries, keys, values, x, axis, sentence, token_mapping, tokens,
          embeddings, op, result, result_id, allocated, outcomes>>

---------------------------------------------------------------------------
(* Bounds of the checked input space. *)

\* Largest row count of queries (Q) and of keys and values (K).
MaxRows == 2
\* Largest column count of queries and keys (D) and of values (V).
MaxCols == 2
\* Largest length of a sentence, in characters.
MaxLen == 4
\* Largest number of entries of an array given to softmax.
MaxCells == 4
\* Largest number of objects: the arguments and the results of three calls.
MaxObjects == 11
\* Magnitude of the large matrix entries: Big > 746 * sqrt(MaxCols + 1).
Big == 2000
\* Fixed-point denominator of the exp series.
ExpScale == 10000
\* Number of terms of the exp series.
ExpTerms == 16
\* Fixed-point denominator of sqrt.
SqrtScale == 100

(* float64 limits of exp: exp(v) is +inf for v >= 710 (v > 709.78...) and  *)
(* 0.0 for v <= -746 (v < -745.13...).                                     *)
ExpOverflow == 710
ExpUnderflow == 746
\* The series is used for |v| <= ExpRange only.
ExpRange == 3

---------------------------------------------------------------------------
(* float64 values and their arithmetic *)

Abs(n) == IF n < 0 THEN -n ELSE n

RECURSIVE GCD(_, _)
GCD(a, b) == IF b = 0 THEN a ELSE GCD(b, a % b)

\* Integer division rounding to nearest (b > 0).
RDiv(a, b) == IF a >= 0 THEN (a + b \div 2) \div b ELSE -(((-a) + b \div 2) \div b)

NaN == <<"nan", 0, 0>>
PInf == <<"inf", 1, 0>>
NInf == <<"inf", -1, 0>>

\* The finite value n/d (d > 0) in lowest terms.
Fin(n, d) == LET g == GCD(Abs(n), d) IN <<"fin", n \div g, d \div g>>

IntN(n) == <<"fin", n, 1>>
Zero == IntN(0)
One == IntN(1)

IsNaN(a) == a[1] = "nan"
IsInf(a) == a[1] = "inf"
IsFin(a) == a[1] = "fin"

Sign(a) == IF a[2] > 0 THEN 1 ELSE IF a[2] < 0 THEN -1 ELSE 0

\* a + b
AddN(a, b) ==
    IF IsNaN(a) \/ IsNaN(b) THEN NaN
    ELSE IF IsInf(a) /\ IsInf(b) THEN (IF a[2] = b[2] THEN a ELSE NaN)
    ELSE IF IsInf(a) THEN a
    ELSE IF IsInf(b) THEN b
    ELSE LET g == GCD(a[3], b[3])
             l == (a[3] \div g) * b[3]
         IN Fin(a[2] * (l \div a[3]) + b[2] * (l \div b[3]), l)

\* a * b
MulN(a, b) ==
    IF IsNaN(a) \/ IsNaN(b) THEN NaN
    ELSE IF IsInf(a) \/ IsInf(b)
         THEN (IF Sign(a) * Sign(b) = 0 THEN NaN
               ELSE IF Sign(a) * Sign(b) > 0 THEN PInf ELSE NInf)
    ELSE LET g1 == GCD(Abs(a[2]), b[3])
             g2 == GCD(Abs(b[2]), a[3])
         IN Fin((a[2] \div g1) * (b[2] \div g2), (a[3] \div g2) * (b[3] \div g1))

\* a / b
DivN(a, b) ==
    IF IsNaN(a) \/ IsNaN(b) THEN NaN
    ELSE IF IsInf(a) /\ IsInf(b) THEN NaN
    ELSE IF IsInf(b) THEN Zero
    ELSE IF IsInf(a) THEN (IF a[2] * (IF b[2] < 0 THEN -1 ELSE 1) > 0 THEN PInf ELSE NInf)
    ELSE IF b[2] = 0
         THEN (IF a[2] = 0 THEN NaN ELSE IF a[2] > 0 THEN PInf ELSE NInf)
    ELSE LET s == IF b[2] < 0 THEN -1 ELSE 1
             g1 == GCD(Abs(a[2]), Abs(b[2]))
             g2 == GCD(a[3], b[3])
         IN Fin(s * (a[2] \div g1) * (b[3] \div g2), (a[3] \div g2) * (Abs(b[2]) \div g1))

\* Sum of the terms t, t*X/(1*S), t*X^2/(2!*S^2), ... of the exp series from term k on.
RECURSIVE ExpSeries(_, _, _)
ExpSeries(X, term, k) ==
    IF k > ExpTerms \/ term = 0 THEN 0
    ELSE term + ExpSeries(X, RDiv(term * X, ExpScale * k), k + 1)

\* np.exp(a)
ExpN(a) ==
    IF IsNaN(a) THEN NaN
    ELSE IF IsInf(a) THEN (IF a[2] > 0 THEN PInf ELSE Zero)
    ELSE CASE a[2] >= ExpOverflow * a[3] -> PInf
           [] a[2] <= -(ExpUnderflow * a[3]) -> Zero
           [] Abs(a[2]) <= ExpRange * a[3] ->
                Fin(ExpSeries(RDiv(a[2] * ExpScale, a[3]), ExpScale, 1), ExpScale)

RECURSIVE ISqrt(_, _)
ISqrt(n, r) == IF (r + 1) * (r + 1) > n THEN r ELSE ISqrt(n, r + 1)

\* np.sqrt(n) of a non-negative integer n
np_sqrt(n) ==
    LET r == ISqrt(n, 0)
    IN IF r * r = n THEN IntN(r)
       ELSE Fin(ISqrt(n * SqrtScale * SqrtScale, r * SqrtScale), SqrtScale)

---------------------------------------------------------------------------
(* numpy arrays.  A 2-D array is [r |-> rows, c |-> columns, a |-> the     *)
(* sequence of its rows]; a 1-D array is a sequence.  The shape is kept    *)
(* apart from the data: an array of zero rows still has its columns.       *)

Mat(r, c, a) == [r |-> r, c |-> c, a |-> a]

\* The outcome of a call: a returned value, or the exception raised.
Ok(v) == [tag |-> "ok", val |-> v]
Raise(e) == [tag |-> e, val |-> Mat(0, 0, <<>>)]

\* keys in place of keys.T: the transposition left out.
Transpose_Omitted(m) == m

\* m.T
Transpose(m) ==
    Mat(m.c, m.r, [j \in 1..m.c |-> [i \in 1..m.r |-> m.a[i][j]]])

RECURSIVE SumSeq(_)
\* Sum of a sequence of numbers, left to right from 0.
SumSeq(s) ==
    IF Len(s) = 0 THEN Zero
    ELSE AddN(SumSeq(SubSeq(s, 1, Len(s) - 1)), s[Len(s)])

\* np.dot(a, b) of 2-D arrays: ValueError when a's columns are not b's rows.
np_dot(a, b) ==
    IF a.c # b.r THEN Raise("ValueError")
    ELSE Ok(Mat(a.r, b.c,
                [i \in 1..a.r |-> [j \in 1..b.c |->
                    SumSeq([k \in 1..a.c |-> MulN(a.a[i][k], b.a[k][j])])]]))

\* m / s for a scalar s
DivScalar(m, s) ==
    Mat(m.r, m.c, [i \in 1..m.r |-> [j \in 1..m.c |-> DivN(m.a[i][j], s)]])

\* np.exp(m)
np_exp(m) ==
    Mat(m.r, m.c, [i \in 1..m.r |-> [j \in 1..m.c |-> ExpN(m.a[i][j])]])

\* np.sum(m, axis=ax): the 1-D array of column sums (ax = 0) or row sums (ax = 1).
np_sum(m, ax) ==
    IF ax = 0
    THEN [j \in 1..m.c |-> SumSeq([i \in 1..m.r |-> m.a[i][j]])]
    ELSE [i \in 1..m.r |-> SumSeq(m.a[i])]

\* np.expand_dims(v, ax) of a 1-D array: shape (1, n) for ax = 0, (n, 1) for ax = 1.
np_expand_dims(v, ax) ==
    IF ax = 0
    THEN Mat(1, Len(v), <<v>>)
    ELSE Mat(Len(v), 1, [i \in 1..Len(v) |-> <<v[i]>>])

\* The broadcast length of two axis lengths, 0 - 1 standing for "incompatible".
BroadcastDim(m, n) ==
    IF m = n THEN m ELSE IF m = 1 THEN n ELSE IF n = 1 THEN m ELSE 0 - 1

\* a / b elementwise with numpy broadcasting: ValueError on incompatible shapes.
np_divide(a, b) ==
    LET r == BroadcastDim(a.r, b.r)
        c == BroadcastDim(a.c, b.c)
    IN IF r < 0 \/ c < 0 THEN Raise("ValueError")
       ELSE Ok(Mat(r, c,
                   [i \in 1..r |-> [j \in 1..c |->
                       DivN(a.a[IF a.r = 1 THEN 1 ELSE i][IF a.c = 1 THEN 1 ELSE j],
                            b.a[IF b.r = 1 THEN 1 ELSE i][IF b.c = 1 THEN 1 ELSE j])]]))

---------------------------------------------------------------------------
(* The functions of the notebook *)

\* softmax(x, axis): np.exp(x) / np.expand_dims(np.sum(np.exp(x), axis=axis), axis)
softmax(m, ax) ==
    np_divide(np_exp(m), np_expand_dims(np_sum(np_exp(m), ax), ax))

\* The local dot of calculate_weights: np.dot(queries, keys.T) / np.sqrt(keys.shape[1])
dot(q, k) ==
    LET prod == np_dot(q, Transpose(k))
    IN IF prod.tag # "ok" THEN prod
       ELSE Ok(DivScalar(prod.val, np_sqrt(k.c)))

\* The weights with softmax over axis 0: every column normalized.
weights_Axis0(q, k) ==
    LET d == dot(q, k)
    IN IF d.tag # "ok" THEN d ELSE softmax(d.val, 0)

\* The local weights of calculate_weights: softmax(dot, axis=1)
weights(q, k) ==
    LET d == dot(q, k)
    IN IF d.tag # "ok" THEN d ELSE softmax(d.val, 1)

\* calculate_weights handing back the array the last call left behind, when
\* there is one, in place of computing the weights.
calculate_weights_Stale(q, k) ==
    IF result.tag = "ok" THEN result
    ELSE LET w == weights(q, k)
         IN IF w.tag # "ok" THEN w
            ELSE LET sums == np_sum(w.val, 1)
                 IN IF Len(sums) = 0 THEN Raise("IndexError")
                    ELSE IF sums[1] # One THEN Raise("AssertionError")
                    ELSE w

\* calculate_weights without its assert.
calculate_weights_NoAssert(q, k) == weights(q, k)

\* calculate_weights(queries, keys): weights, once
\* assert weights.sum(axis=1)[0] == 1 has passed
calculate_weights(q, k) ==
    LET w == weights(q, k)
    IN IF w.tag # "ok" THEN w
       ELSE LET sums == np_sum(w.val, 1)
            IN IF Len(sums) = 0 THEN Raise("IndexError")
               ELSE IF sums[1] # One THEN Raise("AssertionError")
               ELSE w

\* attention_qkv with the weights applied to the keys in place of the values.
attention_qkv_OverKeys(q, k, v) ==
    LET w == calculate_weights(q, k)
    IN IF w.tag # "ok" THEN w
       ELSE np_dot(w.val, k)

\* attention_qkv(queries, keys, values)
attention_qkv(q, k, v) ==
    LET w == calculate_weights(q, k)
    IN IF w.tag # "ok" THEN w
       ELSE np_dot(w.val, v)

(* Strings are sequences of one-character strings. *)

\* c.lower() for the characters of the alphabet.
LowerChar(c) == IF c = "A" THEN "a" ELSE IF c = "B" THEN "b" ELSE c

\* s.lower()
Lower(s) == [i \in 1..Len(s) |-> LowerChar(s[i])]

IsSpace(c) == c = " " \/ c = "\t"

RECURSIVE Split_Whitespace(_)
\* s.split(): the maximal runs of non-whitespace characters of s.
Split_Whitespace(s) ==
    IF \A i \in 1..Len(s) : IsSpace(s[i]) THEN <<>>
    ELSE LET b == CHOOSE n \in 1..Len(s) :
                      ~IsSpace(s[n]) /\ \A m \in 1..(n - 1) : IsSpace(s[m])
             e == CHOOSE n \in b..Len(s) :
                      /\ \A m \in b..n : ~IsSpace(s[m])
                      /\ (n = Len(s) \/ IsSpace(s[n + 1]))
         IN <<SubSeq(s, b, e)>> \o Split_Whitespace(SubSeq(s, e + 1, Len(s)))

RECURSIVE Split(_)
\* s.split(" "): the pieces of s between single spaces, empty pieces kept.
Split(s) ==
    IF \A i \in 1..Len(s) : s[i] # " " THEN <<s>>
    ELSE LET i == CHOOSE n \in 1..Len(s) : s[n] = " " /\ \A m \in 1..(n - 1) : s[m] # " "
         IN <<SubSeq(s, 1, i - 1)>> \o Split(SubSeq(s, i + 1, Len(s)))

\* KeyError gives 0, the index of a word, in place of -1.
Lookup_Zero(mapping, word) ==
    IF word \in DOMAIN mapping THEN mapping[word] ELSE 0

\* token_mapping[word], or -1 on KeyError
Lookup(mapping, word) ==
    IF word \in DOMAIN mapping THEN mapping[word] ELSE 0 - 1

\* tokenize with an except branch that appends nothing.
tokenize_SkipsUnknown(s, mapping) ==
    LET words == SelectSeq(Split(Lower(s)), LAMBDA w : w \in DOMAIN mapping)
    IN [i \in 1..Len(words) |-> mapping[words[i]]]

\* tokenize(sentence, token_mapping)
tokenize(s, mapping) ==
    LET words == Split(Lower(s))
    IN [i \in 1..Len(words) |-> Lookup(mapping, words[i])]

\* embeddings[token]: row token, counted from the end for a negative token;
\* IndexError outside -N..N-1.
EmbeddingRow(emb, token) ==
    IF token >= emb.r \/ token < 0 - emb.r THEN Raise("IndexError")
    ELSE Ok(emb.a[IF token >= 0 THEN token + 1 ELSE emb.r + token + 1])

\* np.zeros((1, embed_size)), assigned to a row of output
ZeroRow(embed_size) == [j \in 1..embed_size |-> Zero]

\* embed without the test for -1: every token indexes the embeddings.
embed_NoSentinel(toks, emb) ==
    IF \E i \in 1..Len(toks) : EmbeddingRow(emb, toks[i]).tag # "ok"
    THEN Raise("IndexError")
    ELSE Ok(Mat(Len(toks), emb.c,
                [i \in 1..Len(toks) |-> EmbeddingRow(emb, toks[i]).val]))

\* embed(tokens, embeddings)
embed(toks, emb) ==
    IF \E i \in 1..Len(toks) :
           toks[i] # 0 - 1 /\ EmbeddingRow(emb, toks[i]).tag # "ok"
    THEN Raise("IndexError")
    ELSE Ok(Mat(Len(toks), emb.c,
                [i \in 1..Len(toks) |->
                    IF toks[i] = 0 - 1 THEN ZeroRow(emb.c)
                    ELSE EmbeddingRow(emb, toks[i]).val]))


---------------------------------------------------------------------------
(* Inputs *)

\* The entries of queries and keys: small values, and a value whose
\* products overflow exp.
Entries == {0, 1, Big}

\* The constant rows of length n over the entries es.
Rows(es, n) == {[j \in 1..n |-> IntN(e)] : e \in es}

\* The r x c arrays whose rows are in rows.
Mats(r, c, rows) == {Mat(r, c, a) : a \in [1..r -> rows]}

\* queries: Q x D arrays, Q >= 0.
QueryMats ==
    UNION {UNION {Mats(r, c, Rows(Entries, c)) : c \in 1..MaxCols} : r \in 0..MaxRows}

\* keys: K x D arrays, K >= 1.
KeyMats ==
    UNION {UNION {Mats(r, c, Rows(Entries, c)) : c \in 1..MaxCols} : r \in 1..MaxRows}

\* values: one K x V array for each shape, K >= 1, its entries 1, 2, ..., K*V.
ValueMats ==
    {Mat(r, c, [k \in 1..r |-> [j \in 1..c |-> IntN((k - 1) * c + j)]]) :
        r \in 1..MaxRows, c \in 1..MaxCols}

NoMat == Mat(0, 0, <<>>)

---------------------------------------------------------------------------
(* Objects.  Every list, dict and array is an object with an identity: the *)
(* objects 1..allocated exist, the arguments being the first of them, and  *)
(* result_id is the object the last call returned (0 before any call and   *)
(* after a call that raised).                                              *)

\* The names bound to objects before any call.
Arguments ==
    {"queries", "keys", "values", "x", "sentence", "token_mapping", "tokens",
     "embeddings"}

\* No call has returned yet.
NothingReturned ==
    /\ result = Raise("none")
    /\ result_id = 0
    /\ allocated = Cardinality(Arguments)
    /\ outcomes = [f \in {} |-> Raise("none")]

\* The call creates an object and, unless it raises, returns it: tokenized = [] (line 36),
\* np.zeros (line 50), the quotient of line 95, np.dot (line 188).
Allocate ==
    /\ allocated' = allocated + 1
    /\ result_id' = IF result'.tag = "ok" THEN allocated + 1 ELSE 0

---------------------------------------------------------------------------
(* The calls of calculate_weights and attention_qkv *)

Init ==
    /\ queries \in QueryMats
    /\ keys \in KeyMats
    /\ values \in ValueMats
    /\ x = NoMat
    /\ axis = 0
    /\ sentence = <<>>
    /\ token_mapping = <<>>
    /\ tokens = <<>>
    /\ embeddings = NoMat
    /\ op = "none"
    /\ NothingReturned

\* alignment = calculate_weights(queries, keys)
CallCalculateWeights ==
    /\ op = "none"
    /\ allocated < MaxObjects
    /\ op' = "calculate_weights"
    /\ result' = calculate_weights(queries, keys)
    /\ Allocate
    /\ UNCHANGED <<queries, keys, values, x, axis, sentence, token_mapping,
                   tokens, embeddings, outcomes>>

\* attention_qkv_result = attention_qkv(queries, keys, values)
CallAttentionQkv ==
    /\ op = "none"
    /\ allocated < MaxObjects
    /\ op' = "attention_qkv"
    /\ result' = attention_qkv(queries, keys, values)
    /\ Allocate
    /\ UNCHANGED <<queries, keys, values, x, axis, sentence, token_mapping,
                   tokens, embeddings, outcomes>>

Next == CallCalculateWeights \/ CallAttentionQkv

Spec == Init /\ [][Next]_vars

---------------------------------------------------------------------------
(* The calls of calculate_weights alone *)

InitWeights ==
    /\ queries \in QueryMats
    /\ keys \in KeyMats
    /\ values = NoMat
    /\ x = NoMat
    /\ axis = 0
    /\ sentence = <<>>
    /\ token_mapping = <<>>
    /\ tokens = <<>>
    /\ embeddings = NoMat
    /\ op = "none"
    /\ NothingReturned

NextWeights == CallCalculateWeights

SpecWeights == InitWeights /\ [][NextWeights]_vars

---------------------------------------------------------------------------
(* The calls of softmax *)

\* The arrays given to softmax: every r x c array of at most MaxCells
\* entries over 0, 1 and Big.
SoftmaxMats ==
    UNION {UNION {{Mat(r, c, a) : a \in [1..r -> [1..c -> {IntN(0), IntN(1), IntN(Big)}]]}
                  : c \in {n \in 1..MaxCols : r * n <= MaxCells}} : r \in 1..MaxRows}

InitSoftmax ==
    /\ queries = NoMat
    /\ keys = NoMat
    /\ values = NoMat
    /\ x \in SoftmaxMats
    /\ axis \in {0, 1}
    /\ sentence = <<>>
    /\ token_mapping = <<>>
    /\ tokens = <<>>
    /\ embeddings = NoMat
    /\ op = "none"
    /\ NothingReturned

\* softmax(x, axis)
CallSoftmax ==
    /\ op = "none"
    /\ allocated < MaxObjects
    /\ op' = "softmax"
    /\ result' = softmax(x, axis)
    /\ Allocate
    /\ UNCHANGED <<queries, keys, values, x, axis, sentence, token_mapping,
                   tokens, embeddings, outcomes>>

NextSoftmax == CallSoftmax

SpecSoftmax == InitSoftmax /\ [][NextSoftmax]_vars

---------------------------------------------------------------------------
(* The calls of tokenize *)

\* The characters of a sentence: letters of both cases, a space and a tab.
Chars == {"a", "B", " ", "\t"}

Sentences == UNION {[1..n -> Chars] : n \in 0..MaxLen}

\* Word-to-index dictionaries: empty; lower-case words; the empty word and an
\* upper-case word among the keys.
TokenMappings ==
    { <<>>,
      [w \in {<<"a">>, <<"b">>, <<"a", "b">>} |->
          IF w = <<"a">> THEN 0 ELSE IF w = <<"b">> THEN 1 ELSE 2],
      [w \in {<<"a">>, <<>>, <<"B">>} |->
          IF w = <<"a">> THEN 0 ELSE IF w = <<>> THEN 3 ELSE 4] }

InitTokenize ==
    /\ queries = NoMat
    /\ keys = NoMat
    /\ values = NoMat
    /\ x = NoMat
    /\ axis = 0
    /\ sentence \in Sentences
    /\ token_mapping \in TokenMappings
    /\ tokens = <<>>
    /\ embeddings = NoMat
    /\ op = "none"
    /\ NothingReturned

\* tokenized = tokenize(sentence, token_mapping)
CallTokenize ==
    /\ op = "none"
    /\ allocated < MaxObjects
    /\ op' = "tokenize"
    /\ result' = Ok(tokenize(sentence, token_mapping))
    /\ Allocate
    /\ UNCHANGED <<queries, keys, values, x, axis, sentence, token_mapping,
                   tokens, embeddings, outcomes>>

NextTokenize == CallTokenize

SpecTokenize == InitTokenize /\ [][NextTokenize]_vars

---------------------------------------------------------------------------
(* The calls of tokenize and embed, one after the other *)

\* "hello world"
HelloWorld == <<"h", "e", "l", "l", "o", " ", "w", "o", "r", "l", "d">>

\* {"hello": 0}
HelloMapping == [w \in {<<"h", "e", "l", "l", "o">>} |-> 0]

EmbedSentences ==
    { HelloWorld, <<>>, <<"a">>, <<"a", " ", "b">>, <<"B", " ", "a">>,
      <<" ", "a">>, <<"a", "\t", "b">> }

EmbedMappings == TokenMappings \cup {HelloMapping}

\* Embedding matrices of N >= 0 rows; [[1.0, 2.0]] is one of them.
EmbeddingMats == ValueMats \cup {Mat(0, c, <<>>) : c \in 1..MaxCols}

\* Token sequences: -1, indices inside and outside the embeddings, and -2.
TokenSeqs == UNION {[1..n -> (0 - 2)..1] : n \in 0..MaxRows}

InitEmbed ==
    /\ queries = NoMat
    /\ keys = NoMat
    /\ values = NoMat
    /\ x = NoMat
    /\ axis = 0
    /\ sentence \in EmbedSentences
    /\ token_mapping \in EmbedMappings
    /\ tokens \in TokenSeqs
    /\ embeddings \in EmbeddingMats
    /\ op = "none"
    /\ NothingReturned

\* embed(tokenized_en, ...): the list tokenize returned is the argument of
\* the next call.
PassTokens ==
    /\ op = "tokenize"
    /\ result.tag = "ok"
    /\ tokens' = result.val
    /\ op' = "none"
    /\ UNCHANGED <<queries, keys, values, x, axis, sentence, token_mapping,
                   embeddings, result, result_id, allocated, outcomes>>

\* embed writing its rows into the embeddings and returning that array.
CallEmbed_InPlace ==
    /\ op = "none"
    /\ allocated < MaxObjects
    /\ op' = "embed"
    /\ result' = embed(tokens, embeddings)
    /\ embeddings' = IF result'.tag = "ok" THEN result'.val ELSE embeddings
    /\ result_id' = Cardinality(Arguments)
    /\ allocated' = allocated + 1
    /\ UNCHANGED <<queries, keys, values, x, axis, sentence, token_mapping,
                   tokens, outcomes>>

\* embedded_en = embed(tokens, embeddings)
CallEmbed ==
    /\ op = "none"
    /\ allocated < MaxObjects
    /\ op' = "embed"
    /\ result' = embed(tokens, embeddings)
    /\ Allocate
    /\ UNCHANGED <<queries, keys, values, x, axis, sentence, token_mapping,
                   tokens, embeddings, outcomes>>

NextEmbed == CallTokenize \/ PassTokens \/ CallEmbed

SpecEmbed == InitEmbed /\ [][NextEmbed]_vars

---------------------------------------------------------------------------
(* One call of any of the five functions, every argument bound *)

\* Arrays of one row, of one column or the largest column count, filled
\* with 1 or with Big.
FrameMats ==
    {Mat(1, c, [i \in 1..1 |-> [j \in 1..c |-> IntN(e)]]) :
        c \in {1, MaxCols}, e \in {1, Big}}

\* Token sequences inside and outside the one-row embedding matrix.
FrameTokens == {<<0, 0 - 1>>, <<MaxRows>>}

InitFrame ==
    /\ queries \in FrameMats
    /\ keys \in FrameMats
    /\ values \in FrameMats
    /\ x \in FrameMats
    /\ axis \in {0, 1}
    /\ sentence \in {HelloWorld, <<"a", " ", " ", "B">>}
    /\ token_mapping = HelloMapping
    /\ tokens \in FrameTokens
    /\ embeddings = Mat(1, 2, <<<<IntN(1), IntN(2)>>>>)
    /\ op = "none"
    /\ NothingReturned

NextFrame ==
    \/ CallTokenize
    \/ CallEmbed
    \/ CallSoftmax
    \/ CallCalculateWeights
    \/ CallAttentionQkv

SpecFrame == InitFrame /\ [][NextFrame]_vars

---------------------------------------------------------------------------
(* Repeated calls of calculate_weights and attention_qkv *)

\* One-column arrays of one row or of the largest row count.
RepeatMats == UNION {Mats(r, 1, Rows(Entries, 1)) : r \in {1, MaxRows}}

InitRepeat ==
    /\ queries \in RepeatMats
    /\ keys \in RepeatMats
    /\ values \in {v \in ValueMats : v.c = 1 /\ v.r \in {1, MaxRows}}
    /\ x = NoMat
    /\ axis = 0
    /\ sentence = <<>>
    /\ token_mapping = <<>>
    /\ tokens = <<>>
    /\ embeddings = NoMat
    /\ op = "none"
    /\ NothingReturned

\* The call is over and the notebook goes on to its next cell; outcomes
\* keeps what the last call of each function gave.
NextCell ==
    /\ op # "none"
    /\ op' = "none"
    /\ outcomes' = [f \in DOMAIN outcomes \cup {op} |->
                       IF f = op THEN result ELSE outcomes[f]]
    /\ UNCHANGED <<queries, keys, values, x, axis, sentence, token_mapping,
                   tokens, embeddings, result, result_id, allocated>>

NextRepeat == CallCalculateWeights \/ CallAttentionQkv \/ NextCell

SpecRepeat == InitRepeat /\ [][NextRepeat]_vars

---------------------------------------------------------------------------
(* Properties of calculate_weights and attention_qkv, under Spec *)

\* v is finite and within 1e-6 of 1.
Near1(v) == IsFin(v) /\ Abs(v[2] - v[3]) <= v[3] \div 1000000

\* v is finite, non-negative and at most 1.
InUnit(v) == IsFin(v) /\ 0 <= v[2] /\ v[2] <= v[3]

\* calculate_weights(queries, keys) was called, queries having at least one row.
WeightsCalled == op = "calculate_weights" /\ queries.r >= 1

\* attention_qkv(queries, keys, values) was called, queries having at least one row.
AttentionCalled == op = "attention_qkv" /\ queries.r >= 1

(* C1: for queries [Q, D] and keys [K, D] with Q >= 1, K >= 1 and D > 0,   *)
(* every row of the matrix returned by calculate_weights sums to 1 within  *)
(* 1e-6.                                                                   *)
C1_EveryRowSumsToOne ==
    (WeightsCalled /\ result.tag = "ok") =>
        \A i \in 1..result.val.r : Near1(SumSeq(result.val.a[i]))

(* C2: whenever any row of the computed weight matrix, not only the first, *)
(* fails to sum to 1, the call of calculate_weights ends in an assertion   *)
(* failure instead of returning the matrix.                                *)
C2_AssertCoversEveryRow ==
    (/\ WeightsCalled
     /\ weights(queries, keys).tag = "ok"
     /\ \E i \in 1..queries.r : SumSeq(weights(queries, keys).val.a[i]) # One)
        => result.tag = "AssertionError"

(* C3: calculate_weights fails with a shape-mismatch error (numpy's        *)
(* ValueError) whenever queries and keys differ in their column counts,    *)
(* and returns a weight matrix whenever the column counts are equal and    *)
(* positive.                                                               *)
C3_FailsExactlyOnShapeMismatch ==
    WeightsCalled =>
        /\ queries.c # keys.c => result.tag = "ValueError"
        /\ (queries.c = keys.c /\ keys.c > 0) => result.tag = "ok"

(* C4: attention_qkv fails with a shape-mismatch error (numpy's            *)
(* ValueError) whenever keys and values differ in their row counts,        *)
(* queries and keys having the same column count.                          *)
C4_ValuesRowMismatchIsShapeError ==
    (AttentionCalled /\ queries.c = keys.c /\ keys.r # values.r)
        => result.tag = "ValueError"

(* C7: every entry of the matrix returned by calculate_weights is          *)
(* non-negative and at most 1.                                             *)
C7_EntriesInUnitInterval ==
    (WeightsCalled /\ result.tag = "ok") =>
        \A i \in 1..result.val.r : \A j \in 1..result.val.c :
            InUnit(result.val.a[i][j])

(* C8: for a single-row matrix given as both queries and keys,             *)
(* calculate_weights returns the 1x1 matrix [[1.0]], whatever its values.  *)
C8_SingleRowSelfAttentionIsOne ==
    (op = "calculate_weights" /\ queries = keys /\ queries.r = 1)
        => result = Ok(Mat(1, 1, <<<<One>>>>))

\* m has r rows of c entries each.
HasShape(m, r, c) ==
    /\ m.r = r
    /\ m.c = c
    /\ Len(m.a) = r
    /\ \A i \in 1..r : Len(m.a[i]) = c

(* C5: for queries [Q, D], keys [K, D] and values [K, V], a matrix         *)
(* returned by calculate_weights has shape [Q, K] and a matrix returned by *)
(* attention_qkv has shape [Q, V]; neither call is refused for its shapes  *)
(* (ValueError) when the column counts of queries and keys agree and the   *)
(* row counts of keys and values agree, whether or not V equals D.         *)
C5_ResultShapes ==
    /\ (op = "calculate_weights" /\ result.tag = "ok")
           => HasShape(result.val, queries.r, keys.r)
    /\ (op = "calculate_weights" /\ queries.c = keys.c)
           => result.tag # "ValueError"
    /\ (op = "attention_qkv" /\ result.tag = "ok")
           => HasShape(result.val, queries.r, values.c)
    /\ (op = "attention_qkv" /\ queries.c = keys.c /\ keys.r = values.r)
           => result.tag # "ValueError"

\* attention_qkv has returned a [Q, V] matrix with V # D and Q # K.
C5_Witness ==
    /\ op = "attention_qkv"
    /\ result.tag = "ok"
    /\ values.c # keys.c
    /\ queries.r # keys.r
    /\ HasShape(result.val, queries.r, values.c)

RECURSIVE WeightedSum(_, _, _, _, _)
\* w[i][1] * v[1][j] + ... + w[i][k] * v[k][j]
WeightedSum(w, v, i, j, k) ==
    IF k = 0 THEN Zero
    ELSE AddN(WeightedSum(w, v, i, j, k - 1), MulN(w.a[i][k], v.a[k][j]))

(* C6: a result of attention_qkv(queries, keys, values) is the matrix      *)
(* product of calculate_weights(queries, keys) and values: its entry       *)
(* [i][v] is the sum over k of weights[i][k] * values[k][v].  (A nan entry *)
(* counts as equal to the nan the sum gives.)                              *)
C6_OutputIsWeightsTimesValues ==
    (op = "attention_qkv" /\ result.tag = "ok") =>
        LET w == calculate_weights(queries, keys)
        IN /\ w.tag = "ok"
           /\ keys.r = values.r
           /\ HasShape(result.val, queries.r, values.c)
           /\ \A i \in 1..queries.r : \A j \in 1..values.c :
                  result.val.a[i][j] = WeightedSum(w.val, values, i, j, keys.r)

\* attention_qkv has returned for two keys that share the weight unevenly
\* and values of two columns.
C6_Witness ==
    /\ op = "attention_qkv"
    /\ result.tag = "ok"
    /\ keys.r = 2
    /\ values.c = 2
    /\ LET w == calculate_weights(queries, keys).val
       IN /\ w.a[1][1] # w.a[1][2]
          /\ InUnit(w.a[1][1]) /\ w.a[1][1] # Zero /\ w.a[1][1] # One
          /\ result.val.a[1][2] = AddN(MulN(w.a[1][1], values.a[1][2]),
                                       MulN(w.a[1][2], values.a[2][2]))

---------------------------------------------------------------------------
(* Properties of softmax, under SpecSoftmax *)

\* The values of m along axis ax through the entry [i][j]: column j for
\* ax = 0, row i for ax = 1.
Along(m, ax, i, j) ==
    IF ax = 0 THEN [k \in 1..m.r |-> m.a[k][j]] ELSE m.a[i]

(* C9: softmax(x, axis) returns a matrix of the shape of x whose values    *)
(* are non-negative and sum to 1 along the axis (every column for axis 0,  *)
(* every row for axis 1), each entry being exp(x[i][j]) divided by the sum *)
(* of the exponentials along that axis.                                    *)
C9_SoftmaxIsADistribution ==
    op = "softmax" =>
        /\ result.tag = "ok"
        /\ HasShape(result.val, x.r, x.c)
        /\ \A i \in 1..x.r : \A j \in 1..x.c :
               /\ result.val.a[i][j] =
                      DivN(ExpN(x.a[i][j]), SumSeq(Along(np_exp(x), axis, i, j)))
               /\ IsFin(result.val.a[i][j]) /\ result.val.a[i][j][2] >= 0
               /\ Near1(SumSeq(Along(result.val, axis, i, j)))

---------------------------------------------------------------------------
(* Properties of tokenize, under SpecTokenize *)

(* C10, as stated: tokenize returns one integer for each                   *)
(* whitespace-delimited word of the sentence, in order: the mapping's      *)
(* index of the lower-cased word, or -1 when the mapping has none; the     *)
(* length of the result is the word count of the sentence.                 *)
C10_OnePerWhitespaceWord ==
    op = "tokenize" =>
        /\ result.tag = "ok"
        /\ Len(result.val) = Len(Split_Whitespace(sentence))
        /\ \A n \in 1..Len(Split_Whitespace(sentence)) :
               result.val[n] = Lookup(token_mapping, Lower(Split_Whitespace(sentence)[n]))

\* The number of space characters of s.
SpaceCount(s) == Cardinality({i \in 1..Len(s) : s[i] = " "})

\* The positions of the n-th piece of s: those that hold no space and have
\* n - 1 spaces before them.
PiecePositions(s, n) ==
    {p \in 1..Len(s) : s[p] # " " /\ Cardinality({m \in 1..p : s[m] = " "}) = n - 1}

\* The n-th piece of s between single spaces (empty when two spaces meet).
Piece(s, n) ==
    LET P == PiecePositions(s, n)
    IN [i \in 1..Cardinality(P) |->
           s[CHOOSE p \in P : Cardinality({q \in P : q < p}) = i - 1]]

\* s is words separated by exactly one space: no tab, no space at either
\* end, no two spaces in a row.
SingleSpaced(s) ==
    /\ Len(s) > 0
    /\ \A i \in 1..Len(s) : s[i] # "\t"
    /\ s[1] # " " /\ s[Len(s)] # " "
    /\ \A i \in 1..(Len(s) - 1) : ~(s[i] = " " /\ s[i + 1] = " ")

(* C10, amended: tokenize returns one integer for each piece of the        *)
(* sentence between single space characters, in order: the mapping's index *)
(* of the lower-cased piece, or -1 when the mapping has none; the length   *)
(* of the result is the number of space characters plus one, which is the  *)
(* word count when the words are separated by exactly one space each.      *)
C10_OnePerSpaceSeparatedPiece ==
    op = "tokenize" =>
        /\ result.tag = "ok"
        /\ Len(result.val) = SpaceCount(sentence) + 1
        /\ \A n \in 1..(SpaceCount(sentence) + 1) :
               LET word == Lower(Piece(sentence, n))
               IN result.val[n] =
                      IF word \in DOMAIN token_mapping THEN token_mapping[word] ELSE 0 - 1
        /\ SingleSpaced(sentence) =>
               Len(result.val) = Len(Split_Whitespace(sentence))

\* tokenize has returned, for words separated by one space each, the index
\* of a word written in upper case and -1 for a word the mapping does not hold.
C10_Witness ==
    /\ op = "tokenize"
    /\ result.tag = "ok"
    /\ SingleSpaced(sentence)
    /\ Len(result.val) >= 2
    /\ \E i \in 1..Len(sentence) : sentence[i] = "B"
    /\ \E n \in 1..Len(result.val) : result.val[n] = 1
    /\ \E n \in 1..Len(result.val) : result.val[n] = 0 - 1

---------------------------------------------------------------------------
(* Properties of embed, and of tokenize followed by embed, under SpecEmbed *)

(* C11: embed(tokens, embeddings) does not fail on the sentinel -1 (a      *)
(* failure needs a token other than -1), and for tokens that are -1 or     *)
(* indices of the embedding matrix it returns a matrix of shape            *)
(* (len(tokens), embedding dimension) whose row i is all zeros where       *)
(* tokens[i] is -1, at every position i, and row tokens[i] of the          *)
(* embedding matrix otherwise.                                             *)
C11_EmbedAlignsRows ==
    op = "embed" =>
        /\ result.tag # "ok" => \E i \in 1..Len(tokens) : tokens[i] # 0 - 1
        /\ (\A i \in 1..Len(tokens) : tokens[i] \in (0 - 1)..(embeddings.r - 1))
               => result.tag = "ok"
        /\ result.tag = "ok" =>
               /\ HasShape(result.val, Len(tokens), embeddings.c)
               /\ \A i \in 1..Len(tokens) :
                      /\ tokens[i] = 0 - 1 =>
                             \A j \in 1..embeddings.c : result.val.a[i][j] = Zero
                      /\ tokens[i] >= 0 =>
                             result.val.a[i] = embeddings.a[tokens[i] + 1]

\* embed has returned for a sentinel that follows the index of a non-zero
\* embedding row.
C11_Witness ==
    /\ op = "embed"
    /\ result.tag = "ok"
    /\ Len(tokens) >= 2
    /\ tokens[1] >= 0
    /\ tokens[Len(tokens)] = 0 - 1
    /\ embeddings.c >= 2
    /\ result.val.a[1] = embeddings.a[tokens[1] + 1]
    /\ result.val.a[1][1] # Zero
    /\ result.val.a[Len(tokens)] = <<Zero, Zero>>

\* The embedding matrix [[1.0, 2.0]]
OneRowEmbeddings == Mat(1, 2, <<<<IntN(1), IntN(2)>>>>)

\* tokenize and then embed have been called, the second on the list the
\* first returned.
TokenizedThenEmbedded ==
    /\ op = "embed"
    /\ allocated >= Cardinality(Arguments) + 2

(* C12: tokenizing "hello world" against {"hello": 0} yields [0, -1], and  *)
(* embedding that token sequence with the embedding matrix [[1.0, 2.0]]    *)
(* yields [[1.0, 2.0], [0.0, 0.0]].                                        *)
C12_HelloWorldEndToEnd ==
    (sentence = HelloWorld /\ token_mapping = HelloMapping) =>
        /\ op = "tokenize" => result = Ok(<<0, 0 - 1>>)
        /\ (TokenizedThenEmbedded /\ embeddings = OneRowEmbeddings) =>
               /\ tokens = <<0, 0 - 1>>
               /\ result = Ok(Mat(2, 2, <<<<IntN(1), IntN(2)>>, <<Zero, Zero>>>>))

\* "hello world" has been tokenized against {"hello": 0} and the tokens
\* embedded with [[1.0, 2.0]].
C12_Witness ==
    /\ sentence = HelloWorld
    /\ token_mapping = HelloMapping
    /\ embeddings = OneRowEmbeddings
    /\ TokenizedThenEmbedded
    /\ tokens = tokenize(sentence, token_mapping)
    /\ result.tag = "ok"
    /\ result.val.r = 2

---------------------------------------------------------------------------
(* Frame of the calls, under SpecFrame *)

(* C13: a call of tokenize, embed, softmax, calculate_weights or           *)
(* attention_qkv leaves the sentence, the token mapping, the token         *)
(* sequence, the embedding matrix, x, and the queries, keys and values     *)
(* matrices as they were, whether it returns or raises, and what it        *)
(* returns is an object that did not exist before the call.                *)
C13_CallsLeaveArgumentsUnchanged ==
    [][(op = "none" /\ op' # "none") =>
          /\ UNCHANGED <<queries, keys, values, x, axis, sentence,
                         token_mapping, tokens, embeddings>>
          /\ result'.tag = "ok" => result_id' > allocated
          /\ result'.tag # "ok" => result_id' = 0]_vars

\* attention_qkv has returned a new array and left its arguments in place.
C13_Witness ==
    /\ op = "attention_qkv"
    /\ result.tag = "ok"
    /\ result_id = Cardinality(Arguments) + 1
    /\ queries \in FrameMats /\ keys \in FrameMats /\ values \in FrameMats
    /\ tokens \in FrameTokens

---------------------------------------------------------------------------
(* Determinism, under SpecRepeat *)

---------------------------------------------------------------------------
(* The formula of the weights, under SpecWeights *)

RECURSIVE RowDot(_, _, _)
\* a[1] * b[1] + ... + a[n] * b[n]
RowDot(a, b, n) ==
    IF n = 0 THEN Zero ELSE AddN(RowDot(a, b, n - 1), MulN(a[n], b[n]))

\* q_i . k_k / sqrt(D)
Score(i, k) ==
    DivN(RowDot(queries.a[i], keys.a[k], keys.c), np_sqrt(keys.c))

RECURSIVE ExpScoreSum(_, _)
\* exp(Score(i, 1)) + ... + exp(Score(i, n))
ExpScoreSum(i, n) ==
    IF n = 0 THEN Zero ELSE AddN(ExpScoreSum(i, n - 1), ExpN(Score(i, n)))

(* C15: the matrix calculate_weights returns has, at [i][k], the           *)
(* exponential of (query row i . key row k) / sqrt(D) divided by the sum   *)
(* over the keys k' of the exponentials of (query row i . key row k') /    *)
(* sqrt(D): dot product, then division by sqrt(D), then softmax over the   *)
(* keys of each query row, never over the queries of a column.             *)
C15_WeightsAreRowSoftmaxOfScaledDot ==
    (op = "calculate_weights" /\ result.tag = "ok") =>
        /\ queries.c = keys.c
        /\ HasShape(result.val, queries.r, keys.r)
        /\ \A i \in 1..queries.r : \A k \in 1..keys.r :
               result.val.a[i][k] =
                   DivN(ExpN(Score(i, k)), ExpScoreSum(i, keys.r))

\* calculate_weights has returned, for two-column queries and keys, a row
\* of unequal weights in a column that does not sum to 1.
C15_Witness ==
    /\ op = "calculate_weights"
    /\ result.tag = "ok"
    /\ keys.c = 2
    /\ queries.r = 2
    /\ keys.r = 2
    /\ result.val.a[1][1] # result.val.a[1][2]
    /\ IsFin(result.val.a[1][1]) /\ IsFin(result.val.a[2][1])
    /\ AddN(result.val.a[1][1], result.val.a[2][1]) # One
    /\ AddN(result.val.a[1][1], result.val.a[1][2]) = One

---------------------------------------------------------------------------
(* softmax and the subtraction of the maximum, under SpecSoftmax *)

\* a <= b, for finite a and b
LeqN(a, b) == a[2] * b[3] <= b[2] * a[3]

\* The largest of the values of m along axis ax through the entry [i][j].
MaxAlong(m, ax, i, j) ==
    LET vs == Along(m, ax, i, j)
    IN vs[CHOOSE n \in 1..Len(vs) : \A l \in 1..Len(vs) : LeqN(vs[l], vs[n])]

\* x - max(x) along axis ax
MaxSubtracted(m, ax) ==
    Mat(m.r, m.c,
        [i \in 1..m.r |-> [j \in 1..m.c |->
            AddN(m.a[i][j], MulN(IntN(0 - 1), MaxAlong(m, ax, i, j)))]])

\* a and b are the same special value, or finite and within 1e-3.
Close(a, b) ==
    \/ a = b
    \/ /\ IsFin(a) /\ IsFin(b)
       /\ 1000 * Abs(a[2] * b[3] - b[2] * a[3]) <= a[3] * b[3]

(* C16: softmax(x, axis) gives what softmax gives on x with the maximum    *)
(* along the axis subtracted, for every matrix x and either axis (finite   *)
(* entries compared within the precision of the exponentials, nan and inf  *)
(* exactly).                                                               *)
C16_MaxSubtractionChangesNothing ==
    op = "softmax" =>
        LET shifted == softmax(MaxSubtracted(x, axis), axis)
        IN /\ result.tag = shifted.tag
           /\ result.tag = "ok" =>
                  \A i \in 1..x.r : \A j \in 1..x.c :
                      Close(result.val.a[i][j], shifted.val.a[i][j])

---------------------------------------------------------------------------
(* Query rows of zeros, under Spec *)

\* Row i of queries is all zeros.
ZeroQueryRow(i) == \A j \in 1..queries.c : queries.a[i][j] = Zero

RECURSIVE ColumnSum(_, _, _)
\* v[1][j] + ... + v[n][j]
ColumnSum(v, j, n) ==
    IF n = 0 THEN Zero ELSE AddN(ColumnSum(v, j, n - 1), v.a[n][j])

\* Row i of the returned weights is 1/K at every key.
UniformRow(i) ==
    /\ result.tag = "ok"
    /\ \A k \in 1..keys.r : result.val.a[i][k] = Fin(1, keys.r)

\* Row i of the returned attention output is the mean of the value rows.
MeanRow(i) ==
    /\ result.tag = "ok"
    /\ \A j \in 1..values.c :
           result.val.a[i][j] = DivN(ColumnSum(values, j, values.r), IntN(values.r))

(* C17: for every query row that is all zeros, calculate_weights gives     *)
(* that row the weight 1/K at each of the K keys, whatever the keys, and   *)
(* attention_qkv gives that row the arithmetic mean of the value rows      *)
(* (queries and keys of the same column count, keys and values of the same *)
(* row count).                                                             *)
C17_ZeroQueryRowIsUniform ==
    \A i \in 1..queries.r :
        (ZeroQueryRow(i) /\ queries.c = keys.c) =>
            /\ op = "calculate_weights" => UniformRow(i)
            /\ (op = "attention_qkv" /\ keys.r = values.r) => MeanRow(i)

---------------------------------------------------------------------------
(* No query rows, under SpecWeights *)

(* C18: calculate_weights called with queries of zero rows, the column     *)
(* counts of queries and keys being equal, returns no matrix: the row-sum  *)
(* check reads row 0 of an empty vector of sums and the call fails         *)
(* (IndexError).                                                           *)
C18_NoQueryRowsIsAnError ==
    (op = "calculate_weights" /\ queries.r = 0 /\ queries.c = keys.c)
        => result.tag = "IndexError"

\* calculate_weights has failed on queries of no rows and two columns,
\* the keys having two rows of two columns.
C18_Witness ==
    /\ op = "calculate_weights"
    /\ queries.r = 0
    /\ queries.c = 2
    /\ keys.c = 2
    /\ keys.r = 2
    /\ weights(queries, keys) = Ok(Mat(0, 2, <<>>))
    /\ result.tag = "IndexError"

---------------------------------------------------------------------------
(* The length of the token list, under SpecTokenize *)

(* C19: tokenize returns for every sentence and every mapping, and its     *)
(* result has one element more than the sentence has space characters: an  *)
(* empty piece (the empty sentence, a space at either end, a space after a *)
(* space) gives one element, -1 unless the mapping holds the empty string, *)
(* and a sentence without a space, tabs or not, gives the one element of   *)
(* the whole lower-cased sentence.                                         *)
C19_LengthIsSpacesPlusOne ==
    op = "tokenize" =>
        /\ result.tag = "ok"
        /\ Len(result.val) = SpaceCount(sentence) + 1
        /\ \A n \in 1..(SpaceCount(sentence) + 1) :
               PiecePositions(sentence, n) = {} =>
                   result.val[n] = IF <<>> \in DOMAIN token_mapping
                                   THEN token_mapping[<<>>] ELSE 0 - 1
        /\ SpaceCount(sentence) = 0 =>
               result.val = <<IF Lower(sentence) \in DOMAIN token_mapping
                              THEN token_mapping[Lower(sentence)] ELSE 0 - 1>>

\* tokenize has returned three elements for a sentence of two spaces in a
\* row followed by a letter and a tab, the mapping holding the empty string.
C19_Witness ==
    /\ op = "tokenize"
    /\ Len(sentence) >= 4
    /\ sentence[1] = " " /\ sentence[2] = " "
    /\ sentence[3] # " " /\ sentence[4] = "\t"
    /\ SpaceCount(sentence) = 2
    /\ <<>> \in DOMAIN token_mapping
    /\ result.tag = "ok"
    /\ Len(result.val) = 3
    /\ result.val[1] = token_mapping[<<>>]
    /\ result.val[3] = 0 - 1

====
